---------------------------- MODULE Spec2Model ----------------------------
(***************************************************************************)
(* A model of scripts/metacognition.py: the persisted belief document and  *)
(* the operations add, feedback, decay, evolve_curiosity,                  *)
(* resolve_curiosity, compile_lens, inject_into_boot and migrate_from_old, *)
(* and the store file as load_db and save_db read and write it.            *)
(*                                                                         *)
(* Specifications                                                          *)
(*   - Spec: the calls on the document, one call per step;                 *)
(*   - SpecLens: compile_lens on documents of several entries;             *)
(*   - SpecRace: two add invocations interleaved step by step;             *)
(*   - SpecCrash: invocations one after the other that may die mid-save;   *)
(*   - SpecInject: inject_into_boot on texts with and without markers;     *)
(*   - SpecMigrate: migrate_from_old on legacy files;                      *)
(*   - SpecPair: two runs of decay passes, one after a negative feedback.  *)
(*                                                                         *)
(* Representation                                                          *)
(*   - a float field (confidence, strength) is a fixed-point integer in    *)
(*     units of 1/Unit, so 0.15 is 1500 and 1.0 is Unit;                   *)
(*   - a timestamp is an integer number of tenths of a day, so the test    *)
(*     days_old < 0.1 of decay is (now - last_touched) < 1;                *)
(*   - a content string is a sequence of one-character strings, so that    *)
(*     strip, slicing, lower and split are computed on its characters;     *)
(*   - an evidence item is a tagged value: the code stores strings and,    *)
(*     through resolve_curiosity, whole lists as items;                    *)
(*   - an id is the number of the _gen_id call that made it (the code      *)
(*     hashes type, time and pid; the model takes the hash as injective);  *)
(*   - Python's None in a string field is the string "None".               *)
(***************************************************************************)
EXTENDS Integers, Sequences, FiniteSets, TLC

VARIABLES
    db,      \* the document stored at DB_PATH: entries, feedback_log, meta
    now,     \* the wall clock, in tenths of a day
    nextId,  \* the number of ids _gen_id has produced, plus one
    steps,   \* how many calls and clock advances there have been
    lens,    \* what the last compile_lens listed, per surfaced type
    run,     \* history of the current series of add calls of one cluster
    ret,     \* what the call of the last step returned
    paths,   \* the file system: the inode under DB_PATH and under its .tmp
    inodes,  \* the content of each inode, in chunks
    proc,    \* the invocations that run against the store file
    boot,    \* the text of BOOT.md
    system_evidence, \* the evidence text handed to inject_into_boot
    legacy,  \* memory/geometry_patterns.json and memory/perception.json
    twin     \* the document of a second run, compared with db

vars == <<db, now, nextId, steps, lens, run, ret,
          paths, inodes, proc, boot, system_evidence, legacy, twin>>

\* what the operations on the document alone leave as it is
others == <<paths, inodes, proc, boot, system_evidence, legacy, twin>>

---------------------------------------------------------------------------
(* Bounds of the model *)

\* the calls (and clock advances) of one behaviour of Spec
MaxSteps == 4

---------------------------------------------------------------------------
(* Program constants *)

Unit == 10000

ENTRY_TYPES == {"perception", "override", "protection", "self_obs", "decision", "curiosity"}

LIMITS == [perception |-> 5, override |-> 5, protection |-> 4,
           self_obs |-> 3, curiosity |-> 3, decision |-> 0]

MIN_STRENGTH == 1000

CONTENT_LIMIT == 500

FEEDBACK_TARGETS == 5

NoneStr == "None"

None == [k |-> "none", v |-> <<>>]

Str(s) == [k |-> "str", v |-> <<s>>]

Lst(items) == [k |-> "list", v |-> items]

---------------------------------------------------------------------------
(* Arithmetic and string helpers *)

Min2(a, b) == IF a < b THEN a ELSE b

Max2(a, b) == IF a > b THEN a ELSE b

SetMin(S) == CHOOSE x \in S : \A y \in S : x <= y

SetMax(S) == CHOOSE x \in S : \A y \in S : x >= y

WS == {" ", "\n"}

\* str.strip(): the string without its leading and trailing whitespace
Strip(s) ==
    LET idx == {i \in 1..Len(s) : s[i] \notin WS}
    IN  IF idx = {} THEN <<>> ELSE SubSeq(s, SetMin(idx), SetMax(idx))

\* str.rstrip(): the string without its trailing whitespace
RStrip(s) ==
    LET idx == {i \in 1..Len(s) : s[i] \notin WS}
    IN  IF idx = {} THEN <<>> ELSE SubSeq(s, 1, SetMax(idx))

\* s[:n]
Truncate(s, n) == SubSeq(s, 1, Min2(n, Len(s)))

LowerChar(c) ==
    CASE c = "A" -> "a"
      [] c = "B" -> "b"
      [] c = "C" -> "c"
      [] OTHER -> c

\* str.lower()
Lower(s) == [i \in 1..Len(s) |-> LowerChar(s[i])]

\* set(s.split()): the maximal runs of non-whitespace characters
SplitSet(s) ==
    {SubSeq(s, i, j) : <<i, j>> \in
        {p \in (1..Len(s)) \X (1..Len(s)) :
            /\ p[1] <= p[2]
            /\ \A k \in p[1]..p[2] : s[k] \notin WS
            /\ (p[1] = 1 \/ s[p[1] - 1] \in WS)
            /\ (p[2] = Len(s) \/ s[p[2] + 1] \in WS)}}

WordSet(s) == SplitSet(Lower(s))

\* overlap = len(e & n) / max(len(e | n), 1);  overlap > 0.5
Similar(existing, content) ==
    LET e_words == WordSet(existing)
        n_words == WordSet(content)
    IN  2 * Cardinality(e_words \cap n_words) >
            Max2(Cardinality(e_words \cup n_words), 1)

\* Python truthiness of an evidence argument: None, "" and [] are false
Truthy(ev) ==
    CASE ev.k = "none" -> FALSE
      [] ev.k = "str" -> ev.v # <<"">>
      [] OTHER -> Len(ev.v) > 0

InSeq(x, s) == \E i \in 1..Len(s) : s[i] = x

\* s.index(x), counted from 1, for x in s
IndexOf(s, x) == SetMin({i \in 1..Len(s) : s[i] = x})

\* f"{n / d:.0f}" for d > 0: the quotient rounded to the nearest integer,
\* a half to the even one
RoundHalfEven(n, d) ==
    LET q == n \div d
        r == n - q * d
    IN  IF 2 * r < d THEN q
        ELSE IF 2 * r > d THEN q + 1
        ELSE IF q % 2 = 0 THEN q ELSE q + 1

---------------------------------------------------------------------------
(* The document *)

DefaultDb ==
    [entries |-> <<>>,
     feedback_log |-> <<>>,
     meta |-> [total_decisions |-> 0, total_corrections |-> 0]]

\* next((e for e in db['entries'] if e['id'] == id), None), as an index
IndexOfId(entries, id) ==
    LET hits == {i \in 1..Len(entries) : entries[i].id = id}
    IN  IF hits = {} THEN 0 ELSE SetMin(hits)

Ids(entries) == {entries[i].id : i \in 1..Len(entries)}

---------------------------------------------------------------------------
(* add *)

\* ValidAdd without the test of the stripped content
ValidAddAnyContent(inp) ==
    /\ inp.type \in ENTRY_TYPES
    /\ inp.content # <<>>

\* the guards of add: a recognised type, content not empty after strip
ValidAdd(inp) ==
    /\ inp.type \in ENTRY_TYPES
    /\ inp.content # <<>>
    /\ Strip(inp.content) # <<>>

\* content = str(content).strip()[:500]
CleanContent(c) == Truncate(Strip(c), CONTENT_LIMIT)

\* confidence = max(0.0, min(1.0, float(confidence)))
ClampConfidence(c) == Max2(0, Min2(Unit, c))

\* the deduplication loop: the first unresolved entry of the type whose
\* word overlap with the content exceeds 0.5, as an index (0: none)
FirstSimilar(entries, type, content) ==
    LET hits == {i \in 1..Len(entries) :
                    /\ entries[i].type = type
                    /\ ~entries[i].resolved
                    /\ Similar(entries[i].content, content)}
    IN  IF hits = {} THEN 0 ELSE SetMin(hits)

\* Reinforce without the cap of 1.0 on the strength
ReinforceUncapped(e, evidence, t) ==
    [e EXCEPT !.reinforcements = @ + 1,
              !.strength = @ + 1000,
              !.last_touched = t,
              !.evidence = IF Truthy(evidence) /\ ~InSeq(evidence, @)
                           THEN Append(@, evidence) ELSE @]

\* the merge branch of add, on the entry found
Reinforce(e, evidence, t) ==
    [e EXCEPT !.reinforcements = @ + 1,
              !.strength = Min2(Unit, @ + 1000),
              !.last_touched = t,
              !.evidence = IF Truthy(evidence) /\ ~InSeq(evidence, @)
                           THEN Append(@, evidence) ELSE @]

\* the entry literal of add
NewEntry(inp, content, confidence, t, id) ==
    [id |-> id,
     type |-> inp.type,
     content |-> content,
     confidence |-> confidence,
     evidence |-> IF Truthy(inp.evidence) THEN <<inp.evidence>> ELSE <<>>,
     source |-> inp.source,
     domain |-> inp.domain,
     trace |-> inp.trace,
     feedback |-> <<>>,
     reinforcements |-> 1,
     strength |-> confidence,
     created |-> t,
     last_touched |-> t,
     resolved |-> FALSE,
     lifecycle |-> IF inp.lifecycle # NoneStr THEN inp.lifecycle
                   ELSE IF inp.type = "curiosity" THEN "born" ELSE NoneStr]

\* add(...) on document d at time t, id being the id _gen_id would return:
\* the document it saves, the id of the entry it returns (0: it returns
\* None) and whether it made a new entry
AddDb(d, inp, t, id) ==
    IF ~ValidAdd(inp) THEN [db |-> d, ret |-> 0, made |-> FALSE]
    ELSE
      LET content == CleanContent(inp.content)
          confidence == ClampConfidence(inp.confidence)
          i == FirstSimilar(d.entries, inp.type, content)
      IN  IF i # 0
          THEN [db |-> [d EXCEPT !.entries[i] = Reinforce(@, inp.evidence, t)],
                ret |-> d.entries[i].id,
                made |-> FALSE]
          ELSE [db |-> [d EXCEPT
                          !.entries = Append(@, NewEntry(inp, content, confidence, t, id)),
                          !.meta.total_decisions =
                              IF inp.type = "decision" THEN @ + 1 ELSE @],
                ret |-> id,
                made |-> TRUE]

---------------------------------------------------------------------------
(* feedback *)

\* active.sort(key=last_touched, reverse=True); active[:5]: the position of
\* unresolved entry i in the sorted list (the sort is stable, also reversed)
RecencyRank(entries, i) ==
    Cardinality({j \in 1..Len(entries) :
        /\ ~entries[j].resolved
        /\ \/ entries[j].last_touched > entries[i].last_touched
           \/ entries[j].last_touched = entries[i].last_touched /\ j < i})

\* the indexes of the targets of feedback; ids = {} stands for a missing or
\* empty entry_ids
FeedbackTargets(entries, ids) ==
    IF ids # {}
    THEN {i \in 1..Len(entries) : entries[i].id \in ids}
    ELSE {i \in 1..Len(entries) :
            /\ ~entries[i].resolved
            /\ RecencyRank(entries, i) < FEEDBACK_TARGETS}

\* FeedbackEntry with the penalty as small as the reward
FeedbackEntrySymmetric(e, direction, context, t) ==
    [e EXCEPT !.feedback = Append(@, [time |-> t, direction |-> direction,
                                      context |-> context]),
              !.strength = IF direction > 0 THEN Min2(Unit, @ + 1500)
                           ELSE Max2(500, @ - 1500),
              !.reinforcements = IF direction > 0 THEN @ + 1 ELSE @,
              !.last_touched = t]

\* the body of the loop over the targets
FeedbackEntry(e, direction, context, t) ==
    [e EXCEPT !.feedback = Append(@, [time |-> t, direction |-> direction,
                                      context |-> context]),
              !.strength = IF direction > 0 THEN Min2(Unit, @ + 1500)
                           ELSE Max2(500, @ - 2500),
              !.reinforcements = IF direction > 0 THEN @ + 1 ELSE @,
              !.last_touched = t]

\* meta.total_corrections after a call
Corrections(n, direction) == IF direction < 0 THEN n + 1 ELSE n

\* FeedbackDb counting one correction per target instead of one per call
FeedbackDbPerTarget(d, direction, context, ids, t) ==
    LET targets == FeedbackTargets(d.entries, ids)
    IN  [entries |-> [i \in 1..Len(d.entries) |->
                        IF i \in targets
                        THEN FeedbackEntry(d.entries[i], direction, context, t)
                        ELSE d.entries[i]],
         feedback_log |-> Append(d.feedback_log,
                                 [time |-> t, direction |-> direction,
                                  context |-> context, entry_ids |-> ids]),
         meta |-> [d.meta EXCEPT
                     !.total_corrections =
                         IF direction < 0 THEN @ + Cardinality(targets) ELSE @]]

\* feedback: the document it saves
FeedbackDb(d, direction, context, ids, t) ==
    LET targets == FeedbackTargets(d.entries, ids)
    IN  [entries |-> [i \in 1..Len(d.entries) |->
                        IF i \in targets
                        THEN FeedbackEntry(d.entries[i], direction, context, t)
                        ELSE d.entries[i]],
         feedback_log |-> Append(d.feedback_log,
                                 [time |-> t, direction |-> direction,
                                  context |-> context, entry_ids |-> ids]),
         meta |-> [d.meta EXCEPT
                     !.total_corrections = Corrections(@, direction)]]

---------------------------------------------------------------------------
(* decay *)

\* 10000 * 2^(-k/32) for k = 0..32, rounded
HalfPowers ==
    <<10000, 9786, 9576, 9371, 9170, 8974, 8781, 8593, 8409, 8229, 8052,
      7880, 7711, 7546, 7384, 7226, 7071, 6920, 6771, 6626, 6484, 6345,
      6209, 6076, 5946, 5819, 5694, 5572, 5453, 5336, 5221, 5109, 5000>>

RECURSIVE Halve(_, _)
Halve(x, n) == IF n = 0 THEN x ELSE Halve(x \div 2, n - 1)

\* effective_half_life = 7 * (1 + reinforcements * 0.3), in tenths of a day
EffectiveHalfLife(reinforcements) == 70 + 21 * reinforcements

\* decay_factor = 0.5 ** (days_old / effective_half_life), in 1/Unit: the
\* whole part of the exponent by halving, the fractional part by linear
\* interpolation in HalfPowers (within 2/Unit of the float result)
DecayFactor(age, reinforcements) ==
    LET hl == EffectiveHalfLife(reinforcements)
        q == age \div hl
        r == age % hl
        k == (r * 32) \div hl
        m == (r * 32) % hl
        frac == HalfPowers[k + 1] -
                    ((HalfPowers[k + 1] - HalfPowers[k + 2]) * m) \div hl
    IN  Halve(frac, q)

\* DecaySkips without the test of the resolved flag
DecaySkipsByAge(e, t) ==
    \/ e.lifecycle = "dormant"
    \/ t - e.last_touched < 1

\* whether the loop of decay skips the entry
DecaySkips(e, t) ==
    \/ e.resolved
    \/ e.lifecycle = "dormant"
    \/ t - e.last_touched < 1

\* DecayEntry that decays the current strength instead of the confidence
DecayEntryCompounding(e, t) ==
    LET strength == Max2(MIN_STRENGTH,
                         (e.strength * DecayFactor(t - e.last_touched,
                                                   e.reinforcements)) \div Unit)
    IN  [e EXCEPT !.strength = strength,
                  !.lifecycle = IF strength < 1500 /\ e.type = "curiosity"
                                THEN "dormant" ELSE @]

\* DecayEntry that also marks the entry as touched by the pass
DecayEntryTouching(e, t) ==
    LET strength == Max2(MIN_STRENGTH,
                         (e.confidence * DecayFactor(t - e.last_touched,
                                                     e.reinforcements)) \div Unit)
    IN  [e EXCEPT !.strength = strength,
                  !.last_touched = t,
                  !.lifecycle = IF strength < 1500 /\ e.type = "curiosity"
                                THEN "dormant" ELSE @]

\* DecayEntry that also stores the decayed value as the new baseline
DecayEntryRebased(e, t) ==
    LET strength == Max2(MIN_STRENGTH,
                         (e.confidence * DecayFactor(t - e.last_touched,
                                                     e.reinforcements)) \div Unit)
    IN  [e EXCEPT !.strength = strength,
                  !.confidence = strength,
                  !.lifecycle = IF strength < 1500 /\ e.type = "curiosity"
                                THEN "dormant" ELSE @]

\* the body of the loop of decay, for an entry it does not skip
DecayEntry(e, t) ==
    LET strength == Max2(MIN_STRENGTH,
                         (e.confidence * DecayFactor(t - e.last_touched,
                                                     e.reinforcements)) \div Unit)
    IN  [e EXCEPT !.strength = strength,
                  !.lifecycle = IF strength < 1500 /\ e.type = "curiosity"
                                THEN "dormant" ELSE @]

\* decay: the document it saves
DecayDb(d, t) ==
    [d EXCEPT !.entries = [i \in 1..Len(d.entries) |->
                             IF DecaySkips(d.entries[i], t) THEN d.entries[i]
                             ELSE DecayEntry(d.entries[i], t)]]

---------------------------------------------------------------------------
(* evolve_curiosity and resolve_curiosity *)

NoSource == [label |-> NoneStr, id |-> 0]

\* f"resolved from {curiosity_id}"
ResolvedFrom(id) == [label |-> "resolved from", id |-> id]

\* evolve_curiosity on the entry found; new_content = <<>> stands for a
\* missing (or empty) new_content
EvolveEntry(e, new_content, evidence, t) ==
    [e EXCEPT !.content = IF new_content # <<>>
                          THEN Truncate(new_content, CONTENT_LIMIT) ELSE @,
              !.evidence = IF Truthy(evidence) THEN Append(@, evidence) ELSE @,
              !.lifecycle = IF @ = "born" THEN "active"
                            ELSE IF @ = "active" /\ Truthy(evidence) THEN "evolving"
                            ELSE @,
              !.last_touched = t,
              !.reinforcements = @ + 1]

\* whether evolve_curiosity finds a curiosity entry under the id
Evolvable(d, id) ==
    /\ IndexOfId(d.entries, id) # 0
    /\ d.entries[IndexOfId(d.entries, id)].type = "curiosity"

\* evolve_curiosity: the id of the entry it returns (0: None)
EvolveRet(d, id) == IF Evolvable(d, id) THEN id ELSE 0

\* evolve_curiosity: the document it saves
EvolveDb(d, id, new_content, evidence, t) ==
    IF ~Evolvable(d, id) THEN d
    ELSE [d EXCEPT !.entries[IndexOfId(d.entries, id)] =
                        EvolveEntry(@, new_content, evidence, t)]

\* the three assignments resolve_curiosity makes to the source entry
MarkResolved(e, t) ==
    [e EXCEPT !.resolved = TRUE, !.lifecycle = "resolved", !.last_touched = t]

\* ResolveInput without the trace back to the source
ResolveInputNoTrace(e, content, becomes_type) ==
    [type |-> becomes_type,
     content |-> content,
     confidence |-> 8000,
     evidence |-> Lst(e.evidence),
     source |-> ResolvedFrom(e.id),
     domain |-> e.domain,
     trace |-> <<>>,
     lifecycle |-> NoneStr]

\* the arguments of the add call that ends resolve_curiosity
ResolveInput(e, content, becomes_type) ==
    [type |-> becomes_type,
     content |-> content,
     confidence |-> 8000,
     evidence |-> Lst(e.evidence),
     source |-> ResolvedFrom(e.id),
     domain |-> e.domain,
     trace |-> <<e.id>>,
     lifecycle |-> NoneStr]

\* resolve_curiosity: the document after it, the id of the entry it returns
\* (0: None) and whether a new entry was made
ResolveDb(d, id, content, becomes_type, t, newId) ==
    LET i == IndexOfId(d.entries, id)
    IN  IF i = 0 THEN [db |-> d, ret |-> 0, made |-> FALSE]
        ELSE LET marked == [d EXCEPT !.entries[i] = MarkResolved(@, t)]
             IN  AddDb(marked,
                       ResolveInput(marked.entries[i], content, becomes_type),
                       t, newId)

---------------------------------------------------------------------------
(* get_active and compile_lens *)

\* Eligible without the test of the resolved flag
EligibleAnyState(e, type, min_strength) ==
    /\ e.strength >= min_strength
    /\ e.type = type

\* the filter of get_active
Eligible(e, type, min_strength) ==
    /\ ~e.resolved
    /\ e.strength >= min_strength
    /\ e.type = type

\* the sort key of get_active
SortKey(e) == e.strength * e.reinforcements

\* ActiveRank with entries of equal key in reverse list order, as a sort
\* that is not stable (an ascending sort then reversed) leaves them
ActiveRankReversedTies(entries, i, type, min_strength) ==
    Cardinality({j \in 1..Len(entries) :
        /\ Eligible(entries[j], type, min_strength)
        /\ \/ SortKey(entries[j]) > SortKey(entries[i])
           \/ SortKey(entries[j]) = SortKey(entries[i]) /\ j > i})

\* the position (from 0) of eligible entry i after
\* entries.sort(key=strength * reinforcements, reverse=True), a stable sort
ActiveRank(entries, i, type, min_strength) ==
    Cardinality({j \in 1..Len(entries) :
        /\ Eligible(entries[j], type, min_strength)
        /\ \/ SortKey(entries[j]) > SortKey(entries[i])
           \/ SortKey(entries[j]) = SortKey(entries[i]) /\ j < i})

\* get_active(type, limit): the ids of the entries it returns, in order
GetActive(entries, type, limit, min_strength) ==
    LET eligible == {i \in 1..Len(entries) :
                        Eligible(entries[i], type, min_strength)}
        at(p) == CHOOSE i \in eligible :
                    ActiveRank(entries, i, type, min_strength) = p - 1
    IN  [p \in 1..Min2(limit, Cardinality(eligible)) |-> entries[at(p)].id]

\* the entries compile_lens lists under each of its five headings, read
\* from the document its decay pass has saved
LensOf(d) ==
    [compiled |-> TRUE,
     perception |-> GetActive(d.entries, "perception", LIMITS.perception, 1500),
     override |-> GetActive(d.entries, "override", LIMITS.override, 1500),
     protection |-> GetActive(d.entries, "protection", LIMITS.protection, 1500),
     self_obs |-> GetActive(d.entries, "self_obs", LIMITS.self_obs, 1500),
     curiosity |-> GetActive(d.entries, "curiosity", LIMITS.curiosity, 1500)]

---------------------------------------------------------------------------
(* Inputs *)

cAB == <<"a", " ", "b">>

cABC == <<" ", "A", " ", "b", " ", "c", " ">>

cABCD == <<"a", " ", "b", " ", "c", " ", "d">>

cBlank == <<" ">>

AddInput(type, content, confidence, evidence, domain, lifecycle) ==
    [type |-> type, content |-> content, confidence |-> confidence,
     evidence |-> evidence, source |-> NoSource, domain |-> domain,
     trace |-> <<>>, lifecycle |-> lifecycle]

AddInputs ==
    { AddInput("perception", cAB, 6000, None, NoneStr, NoneStr),
      AddInput("perception", cABC, 6000, Str("e1"), NoneStr, NoneStr),
      AddInput("perception", cABCD, 15000, None, NoneStr, NoneStr),
      AddInput("curiosity", cAB, 2000, None, NoneStr, NoneStr),
      AddInput("curiosity", cABCD, 8000, Str("e1"), "d1", NoneStr),
      AddInput("decision", cAB, -5000, None, "d1", "active"),
      AddInput("bogus", cAB, 7000, None, NoneStr, NoneStr),
      AddInput("perception", cBlank, 7000, None, NoneStr, NoneStr) }

Directions == {1, -1}

Contexts == {NoneStr}

\* entry_ids of a feedback call: none, or an unknown id with a known one
IdChoices == {{}, {0, 2}}

\* new_content and evidence of an evolve_curiosity call
EvolveInputs ==
    {<<(<<>>), None>>, <<(<<>>), Str("e2")>>, <<cABC, None>>, <<cBlank, None>>}

\* resolution_content and becomes_type of a resolve_curiosity call
ResolveInputs == {<<cAB, "perception">>, <<cBlank, "perception">>, <<cAB, "bogus">>}

\* 0.1 days, and the half-life of an entry never reinforced (9.1 days)
TickAmounts == {1, 91}

---------------------------------------------------------------------------
(* The operations as actions: each is one load, mutate, save cycle *)

NoLens ==
    [compiled |-> FALSE, perception |-> <<>>, override |-> <<>>,
     protection |-> <<>>, self_obs |-> <<>>, curiosity |-> <<>>]

\* the result of a call: the id of the entry returned (0: None) by add,
\* evolve_curiosity or resolve_curiosity
Returned(op, id) == [op |-> op, id |-> id]

NoCall == Returned("none", 0)

\* neither memory/geometry_patterns.json nor memory/perception.json
NoLegacy ==
    [geometry |-> [exists |-> FALSE, failure_patterns |-> <<>>,
                   success_patterns |-> <<>>, emergence_log |-> <<>>],
     perception |-> [exists |-> FALSE, perceptions |-> <<>>]]

\* BOOT.md missing
NoBoot == [exists |-> FALSE, text |-> <<>>]

\* no store file in steps, no BOOT.md, no legacy file, no second run
NoFiles ==
    /\ paths = [db |-> 0, tmp |-> 0]
    /\ inodes = <<>>
    /\ proc = <<>>
    /\ boot = NoBoot
    /\ system_evidence = <<>>
    /\ legacy = NoLegacy
    /\ twin = DefaultDb

Idle ==
    [active |-> FALSE, type |-> NoneStr, first |-> <<>>, id |-> 0, n |-> 0,
     clean |-> FALSE, prev |-> 0]

Init ==
    /\ db = DefaultDb
    /\ now = 0
    /\ nextId = 1
    /\ steps = 0
    /\ lens = NoLens
    /\ run = Idle
    /\ ret = NoCall
    /\ NoFiles

\* the bound of the model: every call counts, also one that is rejected
Counted == steps' = steps + 1

\* the series of add calls that an add call starts, continues or ends
RunAfter(inp, r) ==
    LET content == CleanContent(inp.content)
    IN  IF r.made
        THEN [active |-> TRUE, type |-> inp.type, first |-> content,
              id |-> r.ret, n |-> 1, clean |-> TRUE,
              prev |-> ClampConfidence(inp.confidence)]
        ELSE IF /\ run.active
                /\ ValidAdd(inp)
                /\ inp.type = run.type
                /\ Similar(run.first, content)
        THEN [run EXCEPT
                !.n = @ + 1,
                !.clean = @ /\ \A j \in 1..Len(db.entries) :
                                 (/\ db.entries[j].id # run.id
                                  /\ db.entries[j].type = inp.type
                                  /\ ~db.entries[j].resolved)
                                 => ~Similar(db.entries[j].content, content),
                !.prev = db.entries[IndexOfId(db.entries, run.id)].strength]
        ELSE Idle

Add(inp) ==
    /\ steps < MaxSteps
    /\ LET r == AddDb(db, inp, now, nextId)
       IN  /\ db' = r.db
           /\ nextId' = IF r.made THEN nextId + 1 ELSE nextId
           /\ run' = RunAfter(inp, r)
           /\ ret' = Returned("add", r.ret)
    /\ Counted
    /\ UNCHANGED <<now, lens>>
    /\ UNCHANGED others

Feedback(direction, context, ids) ==
    /\ steps < MaxSteps
    /\ db' = FeedbackDb(db, direction, context, ids, now)
    /\ run' = Idle
    /\ ret' = NoCall
    /\ Counted
    /\ UNCHANGED <<now, nextId, lens>>
    /\ UNCHANGED others

Decay ==
    /\ steps < MaxSteps
    /\ db' = DecayDb(db, now)
    /\ run' = Idle
    /\ ret' = NoCall
    /\ Counted
    /\ UNCHANGED <<now, nextId, lens>>
    /\ UNCHANGED others

EvolveCuriosity(id, new_content, ev) ==
    /\ steps < MaxSteps
    /\ db' = EvolveDb(db, id, new_content, ev, now)
    /\ run' = Idle
    /\ ret' = Returned("evolve", EvolveRet(db, id))
    /\ Counted
    /\ UNCHANGED <<now, nextId, lens>>
    /\ UNCHANGED others

ResolveCuriosity(id, content, becomes_type) ==
    /\ steps < MaxSteps
    /\ LET r == ResolveDb(db, id, content, becomes_type, now, nextId)
       IN  /\ db' = r.db
           /\ nextId' = IF r.made THEN nextId + 1 ELSE nextId
           /\ ret' = Returned("resolve", r.ret)
    /\ run' = Idle
    /\ Counted
    /\ UNCHANGED <<now, lens>>
    /\ UNCHANGED others

Tick(d) ==
    /\ steps < MaxSteps
    /\ now' = now + d
    /\ steps' = steps + 1
    /\ ret' = NoCall
    /\ UNCHANGED <<db, nextId, lens, run>>
    /\ UNCHANGED others

Next ==
    \/ \E inp \in AddInputs : Add(inp)
    \/ \E direction \in Directions, context \in Contexts, ids \in IdChoices :
          Feedback(direction, context, ids)
    \/ Decay
    \/ \E id \in 0..(nextId - 1), inp \in EvolveInputs :
          EvolveCuriosity(id, inp[1], inp[2])
    \/ \E id \in 0..(nextId - 1), inp \in ResolveInputs :
          ResolveCuriosity(id, inp[1], inp[2])
    \/ \E d \in TickAmounts : Tick(d)

Spec == Init /\ [][Next]_vars

---------------------------------------------------------------------------
(* compile_lens on documents of several entries *)

\* the entries of a document of SpecLens
LensDocLen == 6

SurfacedTypes == {"perception", "override", "protection", "self_obs", "curiosity"}

\* the content of the entry at position i: one word of i letters
WordOf(i) == [k \in 1..i |-> "x"]

LensKinds == {"merged", "rewarded", "aged", "resolved", "decision"}

\* The entry at position i of a document, made at time 0 by add and then,
\* at time t: merged into by a second add; given positive feedback; left
\* alone; resolved; or (a decision) merged into by a second add.
LensEntry(kind, type, i, t) ==
    LET made(ty, c) == NewEntry(AddInput(ty, WordOf(i), c, None, NoneStr, NoneStr),
                                WordOf(i), c, 0, i)
    IN  CASE kind = "merged" -> Reinforce(made(type, 8000), None, t)
          [] kind = "rewarded" -> FeedbackEntry(made(type, 6000), 1, NoneStr, t)
          [] kind = "aged" -> made(type, 8000)
          [] kind = "resolved" -> MarkResolved(made(type, 8000), t)
          [] OTHER -> Reinforce(made("decision", 8000), None, t)

LensDoc(kinds, type, t) ==
    LET rewarded == {i \in 1..Len(kinds) : kinds[i] = "rewarded"}
    IN  [entries |-> [i \in 1..Len(kinds) |-> LensEntry(kinds[i], type, i, t)],
         feedback_log |-> IF rewarded = {} THEN <<>>
                          ELSE <<[time |-> t, direction |-> 1,
                                  context |-> NoneStr, entry_ids |-> rewarded]>>,
         meta |-> [total_decisions |->
                       Cardinality({i \in 1..Len(kinds) : kinds[i] = "decision"}),
                   total_corrections |-> 0]]

InitLens ==
    /\ now \in {70, 280}
    /\ \E type \in SurfacedTypes, kinds \in [1..LensDocLen -> LensKinds] :
          db = LensDoc(kinds, type, now)
    /\ nextId = LensDocLen + 1
    /\ steps = 0
    /\ lens = NoLens
    /\ run = Idle
    /\ ret = NoCall
    /\ NoFiles

\* compile_lens: the decay pass, then the five get_active calls
CompileLens ==
    /\ db' = DecayDb(db, now)
    /\ lens' = LensOf(db')
    /\ UNCHANGED <<now, nextId, steps, run, ret>>
    /\ UNCHANGED others

NextLens == CompileLens

SpecLens == InitLens /\ [][NextLens]_vars

---------------------------------------------------------------------------
(* The store file: load_db and save_db, step by step *)

\* the write calls json.dump makes on one file
FileChunks == 2

\* the invocations one behaviour starts
MaxRuns == 2

Procs == {1, 2}

\* the piece number k of the JSON text of document d
Chunk(d, k) == [doc |-> d, k |-> k]

\* a piece of a file that no write has filled
Hole == Chunk(DefaultDb, 0)

\* f.write of piece c at offset k of a file of the given content
WriteAt(content, k, c) ==
    [i \in 1..Max2(Len(content), k) |->
        IF i = k THEN c
        ELSE IF i <= Len(content) THEN content[i]
        ELSE Hole]

\* whether a file's content is the whole JSON text of one document
Complete(content) ==
    /\ Len(content) = FileChunks
    /\ \A i \in 1..FileChunks : content[i] = Chunk(content[1].doc, i)

\* load_db: the document of the file at DB_PATH, or the default document
\* when the file is missing or json.load raises
LoadDb(ps, ins) ==
    IF ps.db = 0 THEN DefaultDb
    ELSE IF Complete(ins[ps.db]) THEN ins[ps.db][1].doc
    ELSE DefaultDb

\* save_db writing straight to DB_PATH
SaveTargetDirect == "db"

\* tmp = DB_PATH + '.tmp': the path save_db opens for writing
SaveTarget == "tmp"

NoInput == AddInput(NoneStr, <<>>, 0, None, NoneStr, NoneStr)

\* an invocation that has not started
InitProc ==
    [pc |-> "idle", inp |-> NoInput, view |-> DefaultDb, id |-> 0, ret |-> 0,
     fd |-> 0, off |-> 0,
     prev |-> DefaultDb, early |-> FALSE, alone |-> FALSE, turn |-> 0]

\* the add calls of the invocations
StoreInputs ==
    { AddInput("perception", cAB, 6000, None, NoneStr, NoneStr),
      AddInput("perception", cABC, 6000, Str("e1"), NoneStr, NoneStr),
      AddInput("curiosity", cABCD, 8000, Str("e1"), "d1", NoneStr) }

InitStore ==
    /\ db = DefaultDb
    /\ now = 0
    /\ nextId = 1
    /\ steps = 0
    /\ lens = NoLens
    /\ run = Idle
    /\ ret = NoCall
    /\ paths = [db |-> 0, tmp |-> 0]
    /\ inodes = <<>>
    /\ proc = [p \in Procs |-> InitProc]
    /\ boot = NoBoot
    /\ system_evidence = <<>>
    /\ legacy = NoLegacy
    /\ twin = DefaultDb

\* what the steps on the store file leave as it is
fixed == <<db, now, steps, lens, run, ret, boot, system_evidence, legacy, twin>>

\* the document add mutates, re-read from the store at that moment
ViewReread(p) == LoadDb(paths, inodes)

\* the document add mutates: the one its load_db call returned
View(p) == proc[p].view

\* add up to its load_db call
Load(p, inp) ==
    /\ proc[p].pc = "idle"
    /\ nextId <= MaxRuns
    /\ proc' = [proc EXCEPT ![p] =
                    [@ EXCEPT !.pc = "loaded", !.inp = inp, !.id = nextId,
                              !.view = LoadDb(paths, inodes),
                              !.prev = LoadDb(paths, inodes)]]
    /\ nextId' = nextId + 1
    /\ UNCHANGED <<paths, inodes>>
    /\ UNCHANGED fixed

\* add from its load_db call to its save_db call
Mutate(p) ==
    /\ proc[p].pc = "loaded"
    /\ LET r == AddDb(View(p), proc[p].inp, now, proc[p].id)
       IN  proc' = [proc EXCEPT ![p] =
                       [@ EXCEPT !.pc = "mutated", !.view = r.db, !.ret = r.ret]]
    /\ UNCHANGED <<nextId, paths, inodes>>
    /\ UNCHANGED fixed

\* save_db: open(tmp, 'w') makes the file or empties it
OpenTmp(p) ==
    /\ proc[p].pc = "mutated"
    /\ LET made == paths[SaveTarget] = 0
           fd == IF made THEN Len(inodes) + 1 ELSE paths[SaveTarget]
       IN  /\ inodes' = IF made THEN Append(inodes, <<>>)
                        ELSE [inodes EXCEPT ![fd] = <<>>]
           /\ paths' = [paths EXCEPT ![SaveTarget] = fd]
           /\ proc' = [proc EXCEPT ![p] =
                          [@ EXCEPT !.pc = "writing", !.fd = fd, !.off = 0,
                                    !.early = \A q \in Procs : proc[q].pc # "idle",
                                    !.alone = \A q \in Procs \ {p} :
                                                 proc[q].pc # "writing",
                                    !.turn = 1 + Cardinality({q \in Procs :
                                                     proc[q].turn > 0})]]
    /\ UNCHANGED nextId
    /\ UNCHANGED fixed

\* save_db: one write of json.dump
WriteTmp(p) ==
    /\ proc[p].pc = "writing"
    /\ proc[p].off < FileChunks
    /\ inodes' = [inodes EXCEPT ![proc[p].fd] =
                     WriteAt(@, proc[p].off + 1, Chunk(proc[p].view, proc[p].off + 1))]
    /\ proc' = [proc EXCEPT ![p] = [@ EXCEPT !.off = @ + 1]]
    /\ UNCHANGED <<nextId, paths>>
    /\ UNCHANGED fixed

\* save_db: the file is closed and os.replace(tmp, DB_PATH) renames it, or
\* raises when no file is left under tmp
Replace(p) ==
    /\ proc[p].pc = "writing"
    /\ proc[p].off = FileChunks
    /\ IF paths[SaveTarget] = 0
       THEN /\ proc' = [proc EXCEPT ![p] = [@ EXCEPT !.pc = "raised"]]
            /\ UNCHANGED paths
       ELSE /\ proc' = [proc EXCEPT ![p] = [@ EXCEPT !.pc = "done"]]
            /\ paths' = IF SaveTarget = "db" THEN paths
                        ELSE [db |-> paths.tmp, tmp |-> 0]
    /\ UNCHANGED <<nextId, inodes>>
    /\ UNCHANGED fixed

\* the process dies between two steps
Crash(p) ==
    /\ proc[p].pc \in {"loaded", "mutated", "writing"}
    /\ proc' = [proc EXCEPT ![p] = [@ EXCEPT !.pc = "crashed"]]
    /\ UNCHANGED <<nextId, paths, inodes>>
    /\ UNCHANGED fixed

\* the next invocation of the program
Restart(p) ==
    /\ proc[p].pc \in {"done", "crashed"}
    /\ proc' = [proc EXCEPT ![p] = InitProc]
    /\ UNCHANGED <<nextId, paths, inodes>>
    /\ UNCHANGED fixed

\* two invocations that overlap
NextRace ==
    \/ \E p \in Procs, inp \in StoreInputs : Load(p, inp)
    \/ \E p \in Procs : Mutate(p)
    \/ \E p \in Procs : OpenTmp(p)
    \/ \E p \in Procs : WriteTmp(p)
    \/ \E p \in Procs : Replace(p)

SpecRace == InitStore /\ [][NextRace]_vars

\* one invocation after the other, each of which may crash
NextCrash ==
    \/ \E inp \in StoreInputs : Load(1, inp)
    \/ Mutate(1)
    \/ OpenTmp(1)
    \/ WriteTmp(1)
    \/ Replace(1)
    \/ Crash(1)
    \/ Restart(1)

SpecCrash == InitStore /\ [][NextCrash]_vars

---------------------------------------------------------------------------
(* inject_into_boot: the text of compile_lens and the text of BOOT.md *)

(***************************************************************************)
(* A text is a sequence of pieces: a piece is one character, one of the    *)
(* two markers, or one literal of a format string.  Neither marker         *)
(* overlaps itself or the other, so index finds a marker in the Python     *)
(* string exactly where it is a piece of the sequence.                     *)
(***************************************************************************)

\* the pieces of the initial text of BOOT.md
BootLen == 3

\* the inject runs of one behaviour
MaxInjects == 2

START_MARKER == "<!-- LIVE_STATE_START -->"

END_MARKER == "<!-- LIVE_STATE_END -->"

RECURSIVE JoinLines(_)
\* "\n".join(lines)
JoinLines(lines) ==
    IF lines = <<>> THEN <<>>
    ELSE IF Len(lines) = 1 THEN lines[1]
    ELSE lines[1] \o <<"\n">> \o JoinLines(Tail(lines))

\* the reinforcement mark of a perception line, n times
Marks(n) == [i \in 1..n |-> "<>"]

\* the line compile_lens writes for an entry of a surfaced type
EntryLine(type, e) ==
    CASE type = "perception" ->
            <<"- ">> \o Marks(Min2(e.reinforcements, 5)) \o <<" ">> \o e.content
      [] type = "override" -> <<"- **", e.domain, "**: ">> \o e.content
      [] type = "protection" -> <<"- ">> \o e.content
      [] type = "self_obs" ->
            <<"- [", ToString((e.confidence * 100) \div Unit), "%] ">> \o e.content
      [] OTHER ->
            <<"- [", e.lifecycle, "|", ToString(Len(e.evidence)), " evidence] ">>
                \o e.content

\* the heading, the entry lines and the empty line of one type, or nothing
SectionLines(d, type, ids) ==
    IF ids = <<>> THEN <<>>
    ELSE << <<"**", type, "**">> >>
         \o [p \in 1..Len(ids) |-> EntryLine(type, d.entries[IndexOfId(d.entries, ids[p])])]
         \o << <<>> >>

\* (1 - total_corrections / max(total_decisions, 1)) * 100, as {:.0f}
Accuracy(d) ==
    LET decisions == Max2(d.meta.total_decisions, 1)
    IN  RoundHalfEven((decisions - d.meta.total_corrections) * 100, decisions)

\* the last line of compile_lens
StatsLine(d) ==
    <<"*", ToString(Cardinality({i \in 1..Len(d.entries) : ~d.entries[i].resolved})),
      " active entries | ", ToString(d.meta.total_decisions),
      " decisions traced | ", ToString(Accuracy(d)), "% uncorrected*">>

\* the string compile_lens returns, from the document its decay pass saved
\* at time t; %H:%M of the clock is the time within the day
LensText(d, t) ==
    LET l == LensOf(d)
    IN  JoinLines(<< <<"*Lens compiled: ", ToString(t % 10), "*">>, <<>> >>
                  \o SectionLines(d, "perception", l.perception)
                  \o SectionLines(d, "override", l.override)
                  \o SectionLines(d, "protection", l.protection)
                  \o SectionLines(d, "self_obs", l.self_obs)
                  \o SectionLines(d, "curiosity", l.curiosity)
                  \o << StatsLine(d) >>)

\* the f-string block of inject_into_boot (its heading in ASCII)
Block(ev, lensText) ==
    <<"\n", START_MARKER, "\n", "## LIVE STATE (Auto-Generated - Do Not Edit)", "\n", "\n">> \o ev
        \o <<"\n", "\n">> \o lensText \o <<"\n", END_MARKER, "\n">>

\* the text inject_into_boot writes in place of content
InjectText(content, ev, lensText) ==
    IF InSeq(START_MARKER, content) /\ InSeq(END_MARKER, content)
    THEN LET start_idx == IndexOf(content, START_MARKER)
             end_idx == IndexOf(content, END_MARKER)
         IN  SubSeq(content, 1, start_idx - 1)
                 \o Strip(Block(ev, lensText))
                 \o SubSeq(content, end_idx + 1, Len(content))
    ELSE RStrip(content) \o <<"\n", "\n", "---", "\n">> \o Block(ev, lensText)

\* the documents inject starts from: empty, or after one or two add calls
InjectDocs ==
    LET one == AddDb(DefaultDb,
                     AddInput("perception", cAB, 6000, None, NoneStr, NoneStr),
                     0, 1).db
        two == AddDb(one,
                     AddInput("curiosity", cABCD, 8000, Str("e1"), "d1", NoneStr),
                     0, 2).db
    IN  {DefaultDb, one, two}

BootPieces == {"x", "\n", START_MARKER, END_MARKER}

\* the texts of BOOT.md before the first run
BootTexts == UNION {[1..n -> BootPieces] : n \in 0..BootLen}

EvidenceTexts == {<<>>, <<"x">>, <<"x", END_MARKER>>}

InitInject ==
    /\ db \in InjectDocs
    /\ now \in {0, 75}
    /\ nextId = 3
    /\ steps = 0
    /\ lens = NoLens
    /\ run = Idle
    /\ ret = NoCall
    /\ paths = [db |-> 0, tmp |-> 0]
    /\ inodes = <<>>
    /\ proc = <<>>
    /\ boot \in {NoBoot} \cup {[exists |-> TRUE, text |-> t] : t \in BootTexts}
    /\ system_evidence \in EvidenceTexts
    /\ legacy = NoLegacy
    /\ twin = DefaultDb

\* inject_into_boot(system_evidence); the id of its result is 1 for True
Inject ==
    /\ steps < MaxInjects
    /\ steps' = steps + 1
    /\ IF ~boot.exists
       THEN /\ ret' = Returned("inject", 0)
            /\ UNCHANGED <<db, lens, boot>>
       ELSE /\ db' = DecayDb(db, now)
            /\ lens' = LensOf(db')
            /\ boot' = [boot EXCEPT !.text =
                           InjectText(@, system_evidence, LensText(db', now))]
            /\ ret' = Returned("inject", 1)
    /\ UNCHANGED <<now, nextId, run, paths, inodes, proc, system_evidence, legacy, twin>>

NextInject == Inject

SpecInject == InitInject /\ [][NextInject]_vars

---------------------------------------------------------------------------
(* migrate_from_old *)

\* the records of the perceptions list of a legacy file
PercLen == 2

\* the migrate runs of one behaviour
MaxMigrations == 2

Migrated(label) == [label |-> label, id |-> 0]

\* the add call for a failure pattern
FailureInput(fp) ==
    [type |-> "override",
     content |-> IF fp.counters # <<>> THEN fp.counters[1] ELSE <<fp.name>>,
     confidence |-> Min2(Unit, (fp.severity * Unit) \div 5),
     evidence |-> None,
     source |-> Migrated("migrated from geometry"),
     domain |-> fp.name,
     trace |-> <<>>,
     lifecycle |-> NoneStr]

\* the add call for a success pattern
SuccessInput(sp) ==
    [type |-> "protection",
     content |-> sp.protection_rule,
     confidence |-> 9000,
     evidence |-> None,
     source |-> Migrated("migrated from geometry"),
     domain |-> sp.name,
     trace |-> <<>>,
     lifecycle |-> NoneStr]

\* the add call for a record of the emergence log
EmergenceInput(em) ==
    [type |-> "self_obs",
     content |-> em.insight,
     confidence |-> 7000,
     evidence |-> None,
     source |-> Migrated("migrated from geometry emergence log"),
     domain |-> NoneStr,
     trace |-> <<>>,
     lifecycle |-> NoneStr]

\* the add call for a legacy perception
PerceptionInput(p) ==
    [type |-> "perception",
     content |-> p.shift,
     confidence |-> p.intensity,
     evidence |-> None,
     source |-> Migrated("migrated"),
     domain |-> p.domain,
     trace |-> <<>>,
     lifecycle |-> NoneStr]

\* the legacy perceptions migrate does not skip, in order
Kept(perceptions) == SelectSeq(perceptions, LAMBDA p : ~p.decayed)

\* the add calls of migrate_from_old on the geometry file, in order
GeometryInputs(geo) ==
    [i \in 1..Len(geo.failure_patterns) |-> FailureInput(geo.failure_patterns[i])]
    \o [i \in 1..Len(geo.success_patterns) |-> SuccessInput(geo.success_patterns[i])]
    \o [i \in 1..Len(geo.emergence_log) |-> EmergenceInput(geo.emergence_log[i])]

\* the add calls of migrate_from_old on the perception file, in order
PerceptionInputs(perc) ==
    [i \in 1..Len(Kept(perc.perceptions)) |-> PerceptionInput(Kept(perc.perceptions)[i])]

RECURSIVE AddAll(_, _, _, _)
\* the add calls made one after the other: the document after the last, the
\* next unused id, and what each call returned
AddAll(d, inputs, t, id) ==
    IF inputs = <<>> THEN [db |-> d, id |-> id, rets |-> <<>>]
    ELSE LET r == AddDb(d, Head(inputs), t, id)
             rest == AddAll(r.db, Tail(inputs), t, IF r.made THEN id + 1 ELSE id)
         IN  [rest EXCEPT !.rets = <<r.ret>> \o @]

\* migrate_from_old: the document it leaves stored, the next unused id and
\* the count it returns.  The reinforcements it assigns go to the entry
\* object add returned, after add has saved; the closing load_db and
\* save_db store the file as it is.
MigrateDb(d, leg, t, id) ==
    LET geo == AddAll(d, GeometryInputs(leg.geometry), t, id)
        perc == AddAll(geo.db, PerceptionInputs(leg.perception), t, geo.id)
    IN  [db |-> perc.db,
         id |-> perc.id,
         migrated |-> Len(geo.rets)
                        + Cardinality({k \in 1..Len(perc.rets) : perc.rets[k] # 0})]

LegacyPerception(shift, intensity, reinforcements, decayed) ==
    [shift |-> shift, intensity |-> intensity, reinforcements |-> reinforcements,
     decayed |-> decayed, domain |-> NoneStr]

LegacyPerceptions ==
    { LegacyPerception(cAB, 6000, 1, FALSE),
      LegacyPerception(cABCD, 5000, 3, FALSE),
      LegacyPerception(cABC, 6000, 2, TRUE),
      LegacyPerception(cABC, 7000, 2, FALSE) }

\* the contents of memory/perception.json
PerceptionFiles ==
    {NoLegacy.perception}
    \cup {[exists |-> TRUE, perceptions |-> ps] :
            ps \in UNION {[1..n -> LegacyPerceptions] : n \in 0..PercLen}}

\* the contents of memory/geometry_patterns.json
GeometryFiles ==
    { NoLegacy.geometry,
      [exists |-> TRUE,
       failure_patterns |-> <<[counters |-> <<cABCD>>, name |-> "n1", severity |-> 3],
                              [counters |-> <<>>, name |-> "n2", severity |-> 9]>>,
       success_patterns |-> <<[protection_rule |-> cAB, name |-> "n3"]>>,
       emergence_log |-> <<[insight |-> cAB]>>] }

InitMigrate ==
    /\ db \in InjectDocs
    /\ now = 0
    /\ nextId = 3
    /\ steps = 0
    /\ lens = NoLens
    /\ run = Idle
    /\ ret = NoCall
    /\ paths = [db |-> 0, tmp |-> 0]
    /\ inodes = <<>>
    /\ proc = <<>>
    /\ boot = NoBoot
    /\ system_evidence = <<>>
    /\ \E geo \in GeometryFiles, perc \in PerceptionFiles :
          legacy = [geometry |-> geo, perception |-> perc]
    /\ twin = DefaultDb

\* migrate_from_old(); the id of its result is the count it returns
Migrate ==
    /\ steps < MaxMigrations
    /\ steps' = steps + 1
    /\ LET r == MigrateDb(db, legacy, now, nextId)
       IN  /\ db' = r.db
           /\ nextId' = r.id
           /\ ret' = Returned("migrate", r.migrated)
    /\ UNCHANGED <<now, lens, run>>
    /\ UNCHANGED others

NextMigrate == Migrate

SpecMigrate == InitMigrate /\ [][NextMigrate]_vars

---------------------------------------------------------------------------
(* Two runs side by side: db after feedback(-1), twin without it *)

\* the steps of one behaviour of SpecPair
MaxPairSteps == 4

InitPair ==
    /\ db \in InjectDocs \ {DefaultDb}
    /\ twin = db
    /\ now = 0
    /\ nextId = 3
    /\ steps = 0
    /\ lens = NoLens
    /\ run = Idle
    /\ ret = NoCall
    /\ paths = [db |-> 0, tmp |-> 0]
    /\ inodes = <<>>
    /\ proc = <<>>
    /\ boot = NoBoot
    /\ system_evidence = <<>>
    /\ legacy = NoLegacy

pairFixed == <<nextId, lens, run, ret, paths, inodes, proc, boot,
               system_evidence, legacy>>

\* the clock of both runs advances
PairTick(d) ==
    /\ steps < MaxPairSteps
    /\ steps' = steps + 1
    /\ now' = now + d
    /\ UNCHANGED <<db, twin>>
    /\ UNCHANGED pairFixed

\* feedback(-1) in the first run only, once
PairFeedback ==
    /\ steps < MaxPairSteps
    /\ steps' = steps + 1
    /\ Len(db.feedback_log) = Len(twin.feedback_log)
    /\ db' = FeedbackDb(db, -1, NoneStr, {}, now)
    /\ UNCHANGED <<now, twin>>
    /\ UNCHANGED pairFixed

\* decay() in both runs at the same time
PairDecay ==
    /\ steps < MaxPairSteps
    /\ steps' = steps + 1
    /\ db' = DecayDb(db, now)
    /\ twin' = DecayDb(twin, now)
    /\ UNCHANGED now
    /\ UNCHANGED pairFixed

NextPair ==
    \/ \E d \in TickAmounts : PairTick(d)
    \/ PairFeedback
    \/ PairDecay

SpecPair == InitPair /\ [][NextPair]_vars

---------------------------------------------------------------------------
(* Properties *)

Entries == db.entries

EntryOfId(d, id) == d.entries[IndexOfId(d.entries, id)]

\* C1: in every reachable state every entry's strength lies within
\* [0.05, 1.0], also right after add has created the entry.
C1_StrengthInRange ==
    \A i \in 1..Len(Entries) :
        /\ Entries[i].strength >= 500
        /\ Entries[i].strength <= Unit

\* the unresolved entries of the run's type whose content is similar to the
\* first content of the run
RunCluster ==
    {i \in 1..Len(Entries) :
        /\ Entries[i].type = run.type
        /\ ~Entries[i].resolved
        /\ Similar(Entries[i].content, run.first)}

RunHolds ==
    /\ Cardinality(RunCluster) = 1
    /\ EntryOfId(db, run.id).reinforcements = run.n
    /\ EntryOfId(db, run.id).strength >= run.prev
    /\ EntryOfId(db, run.id).strength <= Unit

\* C2 as stated: after N successive add calls of one type, the first
\* creating the entry and each later one with content similar to the first
\* content, exactly one entry of the cluster exists, it has
\* reinforcements = N, and its strength has not decreased and is at most 1.0.
C2_Original == run.active => RunHolds

\* C2, amended: the same, for a series in which no other unresolved entry
\* of the type is similar to any content of the series.
C2_Amended == (run.active /\ run.clean) => RunHolds

C2_Witness ==
    /\ run.active
    /\ run.clean
    /\ run.n = 3
    /\ EntryOfId(db, run.id).reinforcements = 3
    /\ Len(Entries) = 1

\* C3: no two distinct unresolved entries of the same type have contents
\* whose word-set Jaccard similarity exceeds 0.5.
C3_NoSimilarPair ==
    \A i, j \in 1..Len(Entries) :
        (/\ i < j
         /\ Entries[i].type = Entries[j].type
         /\ ~Entries[i].resolved
         /\ ~Entries[j].resolved)
        => ~Similar(Entries[i].content, Entries[j].content)

\* what C4 says of entry old, turned into new by a feedback call
C4Post(old, new, direction, targeted) ==
    IF ~targeted THEN new = old
    ELSE /\ new.strength = IF direction = 1 THEN Min2(Unit, old.strength + 1500)
                           ELSE Max2(500, old.strength - 2500)
         /\ new.reinforcements = IF direction = 1 THEN old.reinforcements + 1
                                 ELSE old.reinforcements
         /\ Len(new.feedback) = Len(old.feedback) + 1
         /\ SubSeq(new.feedback, 1, Len(old.feedback)) = old.feedback
         /\ new.feedback[Len(new.feedback)].direction = direction

\* C4: a feedback call with direction +1 sets each target's strength to
\* min(1.0, strength + 0.15) and adds 1 to its reinforcements; with -1 it
\* sets the strength to max(0.05, strength - 0.25) and leaves reinforcements;
\* either way one feedback record is appended to each target, and entries
\* that are not targets are unchanged.
C4_FeedbackEffect ==
    [][\A direction \in Directions, context \in Contexts, ids \in IdChoices :
          Feedback(direction, context, ids) =>
              /\ Len(db'.entries) = Len(db.entries)
              /\ \A i \in 1..Len(db.entries) :
                    C4Post(db.entries[i], db'.entries[i], direction,
                           i \in FeedbackTargets(db.entries, ids))]_vars

C4_Witness ==
    \E i, j \in 1..Len(Entries) :
        /\ Entries[i].feedback = <<>>
        /\ Len(Entries[j].feedback) = 1
        /\ Entries[j].feedback[1].direction = -1
        /\ Entries[j].strength = 500
        /\ Len(db.feedback_log) = 1

\* C5: total_corrections equals the number of records of feedback_log with
\* a negative direction: each feedback call with direction -1 adds exactly 1
\* whatever the number of its targets, a call with +1 adds nothing.
C5_CorrectionsCount ==
    db.meta.total_corrections =
        Cardinality({k \in 1..Len(db.feedback_log) :
                        db.feedback_log[k].direction < 0})

C5_Witness ==
    /\ db.meta.total_corrections = 1
    /\ Len(db.feedback_log) = 2
    /\ \E i, j \in 1..Len(Entries) :
          /\ i # j
          /\ \E k \in 1..Len(Entries[i].feedback) : Entries[i].feedback[k].direction = -1
          /\ \E k \in 1..Len(Entries[j].feedback) : Entries[j].feedback[k].direction = -1

\* the lifecycle changes of the chain born -> active -> evolving ->
\* {resolved, dormant}, with the decay-driven active -> dormant
ChainSteps ==
    { <<"born", "active">>, <<"active", "evolving">>, <<"evolving", "resolved">>,
      <<"evolving", "dormant">>, <<"active", "dormant">> }

\* C6: every change of a curiosity entry's lifecycle is a step of the chain.
C6_LifecycleChain ==
    [][\A i \in 1..Len(db.entries) :
          (/\ db.entries[i].type = "curiosity"
           /\ db'.entries[i].lifecycle # db.entries[i].lifecycle)
          => <<db.entries[i].lifecycle, db'.entries[i].lifecycle>> \in ChainSteps]_vars

\* C7 as stated: every resolve_curiosity call on an id of the document sets
\* the source's resolved flag, makes the document one entry longer, and
\* returns an entry whose trace contains the source id.
C7_Original ==
    [][\A id \in 1..(nextId - 1), inp \in ResolveInputs :
          ResolveCuriosity(id, inp[1], inp[2]) =>
              LET r == ResolveDb(db, id, inp[1], inp[2], now, nextId)
              IN  /\ EntryOfId(db', id).resolved
                  /\ Len(db'.entries) = Len(db.entries) + 1
                  /\ r.ret # 0
                  /\ InSeq(id, EntryOfId(db', r.ret).trace)]_vars

\* whether resolve_curiosity(id, content, becomes_type) ends in a new entry:
\* the type is recognised, the content is not blank, and no unresolved entry
\* of that type other than the source is similar to the content
C7Creates(id, content, becomes_type) ==
    /\ becomes_type \in ENTRY_TYPES
    /\ Strip(content) # <<>>
    /\ \A j \in 1..Len(db.entries) :
          (/\ db.entries[j].id # id
           /\ db.entries[j].type = becomes_type
           /\ ~db.entries[j].resolved)
          => ~Similar(db.entries[j].content, CleanContent(content))

\* C7, amended: every resolve_curiosity call on an id of the document sets
\* the source's resolved flag; when the type is recognised, the content is
\* not blank and no other unresolved entry of the type is similar to it, the
\* document grows by exactly one entry, which is returned and has
\* trace = [source id]; otherwise the number of entries is unchanged.
C7_Amended ==
    [][\A id \in 1..(nextId - 1), inp \in ResolveInputs :
          ResolveCuriosity(id, inp[1], inp[2]) =>
              LET r == ResolveDb(db, id, inp[1], inp[2], now, nextId)
              IN  /\ EntryOfId(db', id).resolved
                  /\ IF C7Creates(id, inp[1], inp[2])
                     THEN /\ Len(db'.entries) = Len(db.entries) + 1
                          /\ r.ret = db'.entries[Len(db'.entries)].id
                          /\ r.ret \notin Ids(db.entries)
                          /\ db'.entries[Len(db'.entries)].trace = <<id>>
                     ELSE Len(db'.entries) = Len(db.entries)]_vars

C7_Witness ==
    \E i, j \in 1..Len(Entries) :
        /\ Entries[i].resolved
        /\ Entries[j].trace = <<Entries[i].id>>
        /\ ~Entries[j].resolved

\* C8: compile_lens lists no resolved entry, no entry whose strength after
\* its decay pass is below 0.15, no decision entry, and at most 5 perception,
\* 5 override, 4 protection, 3 self_obs and 3 curiosity entries.
C8_LensContents ==
    lens.compiled =>
        /\ \A type \in SurfacedTypes : \A p \in 1..Len(lens[type]) :
              /\ lens[type][p] \in Ids(Entries)
              /\ ~EntryOfId(db, lens[type][p]).resolved
              /\ EntryOfId(db, lens[type][p]).strength >= 1500
              /\ EntryOfId(db, lens[type][p]).type # "decision"
        /\ Len(lens.perception) <= 5
        /\ Len(lens.override) <= 5
        /\ Len(lens.protection) <= 4
        /\ Len(lens.self_obs) <= 3
        /\ Len(lens.curiosity) <= 3

C8_Witness ==
    /\ lens.compiled
    /\ Len(lens.perception) = 5
    /\ Cardinality({i \in 1..Len(Entries) :
                       /\ Entries[i].type = "perception"
                       /\ ~Entries[i].resolved
                       /\ Entries[i].strength >= 1500}) = 6

\* C9: a resolved entry stays resolved, no decay pass changes any of its
\* fields, and no feedback call without explicit ids changes it (it is not
\* among the targets).
C9_ResolvedExcluded ==
    [][\A i \in 1..Len(db.entries) :
          db.entries[i].resolved =>
              /\ db'.entries[i].resolved
              /\ Decay => db'.entries[i] = db.entries[i]
              /\ \A direction \in Directions, context \in Contexts :
                    Feedback(direction, context, {}) =>
                        /\ i \notin FeedbackTargets(db.entries, {})
                        /\ db'.entries[i] = db.entries[i]]_vars

C9_Witness ==
    \E i, j \in 1..Len(Entries) :
        /\ Entries[i].resolved
        /\ now - Entries[i].last_touched >= 1
        /\ Entries[i].strength = Entries[i].confidence
        /\ ~Entries[j].resolved
        /\ Entries[j].feedback = <<>>
        /\ Entries[j].strength < Entries[j].confidence

\* C10: no operation removes an entry from the entries list or changes an
\* existing entry's id, type or confidence.
C10_EntriesKept ==
    [][/\ Len(db'.entries) >= Len(db.entries)
       /\ \A i \in 1..Len(db.entries) :
             /\ db'.entries[i].id = db.entries[i].id
             /\ db'.entries[i].type = db.entries[i].type
             /\ db'.entries[i].confidence = db.entries[i].confidence]_vars

C10_Witness ==
    \E i, j \in 1..Len(Entries) :
        /\ i # j
        /\ Entries[i].reinforcements > 1
        /\ Entries[i].strength # Entries[i].confidence
        /\ Entries[j].resolved

C13_RejectedCalls ==
    [][/\ \A inp \in AddInputs :
             (/\ ret'.op = "add"
              /\ \/ inp.type \notin ENTRY_TYPES
                 \/ Strip(inp.content) = <<>>
              /\ Add(inp))
             => (ret' = Returned("add", 0) /\ db' = db)
       /\ \A id \in 0..(nextId - 1), inp \in EvolveInputs :
             (/\ ret'.op = "evolve"
              /\ \A i \in 1..Len(db.entries) :
                    db.entries[i].id = id => db.entries[i].type # "curiosity"
              /\ EvolveCuriosity(id, inp[1], inp[2]))
             => (ret' = Returned("evolve", 0) /\ db' = db)
       /\ \A id \in 0..(nextId - 1), inp \in ResolveInputs :
             (/\ ret'.op = "resolve"
              /\ \A i \in 1..Len(db.entries) : db.entries[i].id # id
              /\ ResolveCuriosity(id, inp[1], inp[2]))
             => (ret' = Returned("resolve", 0) /\ db' = db)]_vars

C13_Witness ==
    /\ ret = Returned("evolve", 0)
    /\ \E i, j \in 1..Len(Entries) :
          /\ Entries[i].type = "curiosity"
          /\ Entries[j].type = "perception"
    /\ Len(db.feedback_log) = 1

\* C14: when two invocations have both loaded before either saves, and the
\* second opens the temporary file after the first has replaced the store,
\* both finish without an error and the store holds the document of the
\* second alone: the entry the first made and returned is not in it.
C14_LastWriterWins ==
    \A p, q \in Procs :
        (/\ proc[p].pc \in {"done", "raised"}
         /\ proc[q].pc \in {"done", "raised"}
         /\ proc[p].turn = 1 /\ proc[q].turn = 2
         /\ proc[p].early /\ proc[q].early
         /\ proc[p].alone /\ proc[q].alone)
        => LET stored == LoadDb(paths, inodes)
           IN  /\ proc[p].pc = "done" /\ proc[q].pc = "done"
               /\ proc[p].ret = proc[p].id /\ proc[q].ret = proc[q].id
               /\ Len(stored.entries) = 1
               /\ stored.entries[1].id = proc[q].id
               /\ stored.entries[1].content = CleanContent(proc[q].inp.content)
               /\ stored.entries[1].reinforcements = 1
               /\ proc[p].id \notin Ids(stored.entries)

C14_Witness ==
    /\ proc[1].pc = "done" /\ proc[2].pc = "done"
    /\ proc[1].turn = 1 /\ proc[2].turn = 2
    /\ proc[1].early /\ proc[2].early
    /\ proc[1].alone /\ proc[2].alone
    /\ proc[1].ret = proc[1].id
    /\ proc[1].inp.type = "curiosity"
    /\ \A i \in 1..Len(LoadDb(paths, inodes).entries) :
          LoadDb(paths, inodes).entries[i].type = "perception"

\* C15: whatever step of save_db the process dies at, the file at DB_PATH
\* is never partly written, and load_db returns either the document stored
\* before the save or the document being saved.
C15_SaveAtomic ==
    /\ paths.db # 0 => Complete(inodes[paths.db])
    /\ proc[1].pc # "idle" =>
          LoadDb(paths, inodes) \in {proc[1].prev, proc[1].view}

C15_Witness ==
    /\ proc[1].pc = "crashed"
    /\ proc[1].off = 1
    /\ Len(proc[1].prev.entries) = 1
    /\ Len(proc[1].view.entries) = 2
    /\ LoadDb(paths, inodes) = proc[1].prev

\* C16: with the clock and the evidence text unchanged, a second run of
\* inject leaves BOOT.md as the first run left it, whether or not the text
\* had the markers at first, for any entry contents and evidence text.
C16_InjectIdempotent ==
    [][(Inject /\ boot.exists /\ steps >= 1) => boot'.text = boot.text]_vars

\* C17: when the text holds both markers, wherever they are, inject puts
\* the new block in place of the region from a start marker through an end
\* marker after it, and the text before and after the region is kept as it
\* was: nothing else is repeated or dropped.
C17_ReplacesRegion ==
    [][(/\ Inject
        /\ boot.exists
        /\ InSeq(START_MARKER, boot.text)
        /\ InSeq(END_MARKER, boot.text))
       => \E i, j \in 1..Len(boot.text) :
             /\ i < j
             /\ boot.text[i] = START_MARKER
             /\ boot.text[j] = END_MARKER
             /\ boot'.text =
                    SubSeq(boot.text, 1, i - 1)
                        \o Strip(Block(system_evidence, LensText(db', now)))
                        \o SubSeq(boot.text, j + 1, Len(boot.text))]_vars

\* C18: after migrate, every legacy perception that is not flagged decayed
\* has a perception entry in the stored document, similar in content, whose
\* reinforcements is the legacy record's count.
C18_ReinforcementsCarried ==
    ret.op = "migrate" =>
        \A k \in 1..Len(legacy.perception.perceptions) :
            LET p == legacy.perception.perceptions[k]
            IN  ~p.decayed =>
                    \E i \in 1..Len(Entries) :
                        /\ Entries[i].type = "perception"
                        /\ Similar(Entries[i].content, p.shift)
                        /\ Entries[i].reinforcements = p.reinforcements

\* C19: for every unresolved, non-dormant entry last touched at least 0.1
\* days before, the strength a decay pass leaves is
\* max(0.10, confidence * 0.5^(days_old / (7 * (1 + 0.3 * reinforcements)))),
\* whatever the strength was before the pass; after k whole half-lives that
\* is max(0.10, confidence / 2^k).
C19_DecayFormula ==
    [][Decay =>
          \A i \in 1..Len(db.entries) :
              LET e == db.entries[i]
                  age == now - e.last_touched
                  half_life == 70 + 21 * e.reinforcements
              IN  (~e.resolved /\ e.lifecycle # "dormant" /\ age >= 1) =>
                      /\ db'.entries[i].strength =
                            Max2(1000, (e.confidence
                                          * DecayFactor(age, e.reinforcements))
                                       \div Unit)
                      /\ age % half_life = 0 =>
                            db'.entries[i].strength =
                                Max2(1000, Halve(e.confidence, age \div half_life))]_vars

C19_Witness ==
    \E i \in 1..Len(Entries) :
        /\ Len(Entries[i].feedback) = 1
        /\ Entries[i].feedback[1].direction = -1
        /\ now - Entries[i].last_touched = 91
        /\ Entries[i].reinforcements = 1
        /\ Entries[i].strength = Max2(1000, Entries[i].confidence \div 2)
        /\ Entries[i].strength # Max2(500, Entries[i].confidence - 2500)

\* C20: a decay pass leaves every entry that is resolved, dormant or last
\* touched less than 0.1 days before exactly as it was; in the other
\* entries it changes nothing but strength and, for a curiosity, lifecycle;
\* it changes nothing in feedback_log or meta.
C20_DecayFrame ==
    [][Decay =>
          /\ db'.feedback_log = db.feedback_log
          /\ db'.meta = db.meta
          /\ Len(db'.entries) = Len(db.entries)
          /\ \A i \in 1..Len(db.entries) :
                LET e == db.entries[i]
                    f == db'.entries[i]
                IN  IF \/ e.resolved
                       \/ e.lifecycle = "dormant"
                       \/ now - e.last_touched < 1
                    THEN f = e
                    ELSE /\ [f EXCEPT !.strength = e.strength,
                                      !.lifecycle = e.lifecycle] = e
                         /\ e.type # "curiosity" => f.lifecycle = e.lifecycle]_vars

C20_Witness ==
    /\ ret = NoCall
    /\ \E i, j \in 1..Len(Entries) :
          /\ Entries[i].feedback = <<>>
          /\ Entries[i].reinforcements = 1
          /\ now - Entries[i].last_touched >= 1
          /\ Entries[i].strength < Entries[i].confidence
          /\ Entries[j].last_touched = now
          /\ Entries[j].strength = 0

\* the positions in the document of the entries that may be listed under a
\* type: unresolved, of that type, strength at least 0.15
C21Eligible(type) ==
    {i \in 1..Len(Entries) :
        /\ Entries[i].type = type
        /\ ~Entries[i].resolved
        /\ Entries[i].strength >= 1500}

\* entry i comes before entry j in the order of the lens: the larger
\* strength x reinforcements first, equal products in list order
C21Before(i, j) ==
    LET ki == Entries[i].strength * Entries[i].reinforcements
        kj == Entries[j].strength * Entries[j].reinforcements
    IN  ki > kj \/ (ki = kj /\ i < j)

\* C21: for each surfaced type the entries compile_lens lists are the
\* first `limit` eligible entries in descending order of strength x
\* reinforcements, equal products in list order: the listed entries are
\* eligible and in that order, as many as the limit allows, and every
\* eligible entry left out comes after every listed one.
C21_LensOrder ==
    lens.compiled =>
        \A type \in SurfacedTypes :
            LET ids == lens[type]
                at(p) == IndexOfId(Entries, ids[p])
                listed == {at(p) : p \in 1..Len(ids)}
            IN  /\ listed \subseteq C21Eligible(type)
                /\ Len(ids) = Min2(LIMITS[type], Cardinality(C21Eligible(type)))
                /\ \A p, q \in 1..Len(ids) : p < q => C21Before(at(p), at(q))
                /\ \A i \in C21Eligible(type) \ listed :
                      \A j \in listed : C21Before(j, i)

C21_Witness ==
    /\ lens.compiled
    /\ Len(lens.perception) = 5
    /\ Cardinality(C21Eligible("perception")) = 6
    /\ LET at(p) == IndexOfId(Entries, lens.perception[p])
           key(i) == Entries[i].strength * Entries[i].reinforcements
       IN  /\ at(1) > at(2)
           /\ key(at(2)) = key(at(3))
           /\ key(at(4)) > key(at(5))
           /\ \E i \in C21Eligible("perception") :
                 /\ i > at(5)
                 /\ key(i) = key(at(5))
                 /\ \A p \in 1..5 : at(p) # i

\* whether two evidence sequences hold the same items in the same order
C22SameItems(a, b) ==
    /\ Len(a) = Len(b)
    /\ \A k \in 1..Len(a) : IF a[k].k = b[k].k THEN a[k] = b[k] ELSE FALSE

\* C22: when resolve_curiosity creates a new entry (no merge), the entry
\* has type becomes_type, confidence 0.8, the source's domain, trace =
\* [source id], and as evidence the source's evidence items in their order.
C22_ResolvedEntryFields ==
    [][\A id \in 1..(nextId - 1), inp \in ResolveInputs :
          (/\ ret'.op = "resolve"
           /\ Len(db'.entries) = Len(db.entries) + 1
           /\ ResolveCuriosity(id, inp[1], inp[2]))
          => LET new == db'.entries[Len(db'.entries)]
                 source == EntryOfId(db, id)
             IN  /\ new.id = ret'.id
                 /\ new.type = inp[2]
                 /\ new.confidence = 8000
                 /\ new.domain = source.domain
                 /\ new.trace = <<id>>
                 /\ C22SameItems(new.evidence, source.evidence)]_vars

\* C23: of two runs from the same document with the same decay passes at
\* the same times, one of which first applies feedback(-1) to an entry,
\* the run with the feedback never has the entry stronger after a later
\* decay pass than the run without it.
C23_NegativeFeedbackNeverStronger ==
    [][(PairDecay /\ Len(db.feedback_log) > Len(twin.feedback_log)) =>
          \A i \in 1..Len(db.entries) :
              Len(db.entries[i].feedback) > Len(twin.entries[i].feedback)
              => db'.entries[i].strength <= twin'.entries[i].strength]_vars

\* C24: in every state reached by add and feedback calls the uncorrected
\* rate of the lens, (1 - total_corrections / max(total_decisions, 1)) * 100,
\* lies between 0 and 100: total_corrections never exceeds
\* max(total_decisions, 1).
C24_UncorrectedRateInRange ==
    /\ db.meta.total_corrections <= Max2(db.meta.total_decisions, 1)
    /\ Accuracy(db) \in 0..100

=============================================================================
